---- MODULE Spec2Model ----
(***************************************************************************)
(* Model of server/main.py: the /predict/slice endpoint of the liver tumour *)
(* segmentation server.  A request is received (the model-availability     *)
(* check, the lower-casing of the filename and the await of the upload's   *)
(* bytes), and then handled in one synchronous step: the 2-D branch, the   *)
(* volumetric branch or the rejection of the extension.                    *)
(*                                                                         *)
(* Arrays are records [shape, data]: shape is the tuple of axis lengths    *)
(* and data maps every 0-based index tuple to a value, as numpy does.      *)
(* Floating-point quotients are kept exact as records [num, span, eps],    *)
(* standing for num / (span + eps * 1e-8).                                 *)
(***************************************************************************)
EXTENDS Integers, Sequences, FiniteSets, TLC

VARIABLES model, training, modelWrites, tmpFiles, req

vars == <<model, training, modelWrites, tmpFiles, req>>

(***************************************************************************)
(* Bounds of the model.                                                    *)
(***************************************************************************)
\* largest length of an axis of an uploaded image or volume
MaxDim == 2
\* temporary files that may be left behind before write faults stop being injected
MaxTmpFiles == 1

(***************************************************************************)
(* Program constants.                                                      *)
(***************************************************************************)
\* IMAGE_SIZE = (224, 224): the model's internal resolution
IMAGE_SIZE == 224
\* np.clip(volume, -1000, 400)
ClipLo == -1000
ClipHi == 400
\* the divisor of the 2-D path and the factor of the uint8 conversions
PixelMax == 255

(***************************************************************************)
(* Strings: a filename is a sequence of one-character strings.             *)
(***************************************************************************)
UpperChars == <<"A","B","C","D","E","F","G","H","I","J","K","L","M",
                "N","O","P","Q","R","S","T","U","V","W","X","Y","Z">>
LowerChars == <<"a","b","c","d","e","f","g","h","i","j","k","l","m",
                "n","o","p","q","r","s","t","u","v","w","x","y","z">>

LowerChar(c) ==
    IF \E i \in DOMAIN UpperChars : UpperChars[i] = c
    THEN LowerChars[CHOOSE i \in DOMAIN UpperChars : UpperChars[i] = c]
    ELSE c

\* faulty variant of Lower: the filename is compared as it was sent
LowerOmitted(s) == s

\* str.lower()
Lower(s) == [i \in DOMAIN s |-> LowerChar(s[i])]

\* str.endswith(suffix)
EndsWith(s, suffix) ==
    /\ Len(suffix) <= Len(s)
    /\ SubSeq(s, Len(s) - Len(suffix) + 1, Len(s)) = suffix

ExtPng   == <<".","p","n","g">>
ExtJpg   == <<".","j","p","g">>
ExtJpeg  == <<".","j","p","e","g">>
ExtNii   == <<".","n","i","i">>
ExtNiiGz == <<".","n","i","i",".","g","z">>

\* filename.endswith((".png", ".jpg", ".jpeg"))
Is2DName(filename) ==
    \/ EndsWith(filename, ExtPng)
    \/ EndsWith(filename, ExtJpg)
    \/ EndsWith(filename, ExtJpeg)

\* faulty variant of IsNiftiName: the second suffix is ".gz"
IsNiftiNameAnyGz(filename) ==
    \/ EndsWith(filename, ExtNii)
    \/ EndsWith(filename, SubSeq(ExtNiiGz, 5, 7))

\* filename.endswith((".nii", ".nii.gz"))
IsNiftiName(filename) ==
    \/ EndsWith(filename, ExtNii)
    \/ EndsWith(filename, ExtNiiGz)

(***************************************************************************)
(* Arrays.                                                                 *)
(***************************************************************************)
RECURSIVE Indices(_)
Indices(shape) ==
    IF shape = <<>> THEN {<<>>}
    ELSE {<<i>> \o rest : i \in 0..(Head(shape) - 1), rest \in Indices(Tail(shape))}

\* the value of a local that was never assigned
NoArray == [shape |-> <<0>>, data |-> [idx \in {} |-> 0]]

NDim(arr) == Len(arr.shape)

RECURSIVE Unsqueeze(_, _)
\* the index into the unsqueezed array of index idx of the squeezed one
Unsqueeze(idx, shape) ==
    IF shape = <<>> THEN <<>>
    ELSE IF Head(shape) = 1
         THEN <<0>> \o Unsqueeze(idx, Tail(shape))
         ELSE <<Head(idx)>> \o Unsqueeze(Tail(idx), Tail(shape))

\* ndarray.squeeze(): every axis of length 1 is removed
Squeeze(arr) ==
    LET kept == SelectSeq(arr.shape, LAMBDA d : d # 1)
    IN  [shape |-> kept,
         data  |-> [idx \in Indices(kept) |-> arr.data[Unsqueeze(idx, arr.shape)]]]

SetMin(S) == CHOOSE m \in S : \A x \in S : m <= x
SetMax(S) == CHOOSE m \in S : \A x \in S : m >= x

Values(arr) == {arr.data[idx] : idx \in DOMAIN arr.data}

(***************************************************************************)
(* Quotients: [num, span, eps] is num / (span + eps * 1e-8).               *)
(***************************************************************************)
Quot(n, s, e) == [num |-> n, span |-> s, eps |-> e]

\* 0/0 is NaN and x/0 is +-Inf
IsNaNOrInf(q) == q.span = 0 /\ q.eps = 0

IsZero(q) == ~IsNaNOrInf(q) /\ q.num = 0

\* (q * 255).astype(np.uint8); 1e-8 is below float32 resolution of the quotient
ToUint8(q) ==
    IF q.span = 0 THEN 0 ELSE (q.num * PixelMax) \div q.span

(***************************************************************************)
(* Uploads.  A payload is the content of the uploaded bytes: an encoded    *)
(* image, a NIfTI file (plain or gzipped) or bytes no codec accepts.  Its   *)
(* sample values follow a pattern: base plus a step per axis.              *)
(***************************************************************************)
RECURSIVE Dot(_, _)
Dot(idx, step) ==
    IF idx = <<>> THEN 0 ELSE Head(idx) * Head(step) + Dot(Tail(idx), Tail(step))

PatternValue(pat, idx) == pat.base + Dot(idx, pat.step)

ImagePatterns ==
    { [base |-> 0,   step |-> <<0, 0>>],
      [base |-> 128, step |-> <<0, 0>>],
      [base |-> 255, step |-> <<-100, -50>>] }

VolumePatterns ==
    { [base |-> 40,    step |-> <<0, 0, 0, 0>>],
      [base |-> 3000,  step |-> <<0, 0, 0, 0>>],
      [base |-> -1100, step |-> <<300, 200, 900, 7>>] }

Dims == 1..MaxDim

ImageShapes == {<<h, w>> : h \in Dims, w \in Dims}

\* a fourth axis is degenerate (length 1) or a time series
FourthAxis == {1, 2}

VolumeShapes ==
    {<<h, w, d>> : h \in Dims, w \in Dims, d \in Dims}
    \cup {<<h, w, d, t>> : h \in Dims, w \in Dims, d \in Dims, t \in FourthAxis}

Payloads ==
    [kind : {"image"}, shape : ImageShapes, pat : ImagePatterns]
    \cup [kind : {"nii", "niigz"}, shape : VolumeShapes, pat : VolumePatterns]
    \cup [kind : {"garbage"}, shape : {<<1, 1>>}, pat : {[base |-> 0, step |-> <<0, 0>>]}]

\* s.png, s.PNG, s.jpg, s.Jpeg
Names2D ==
    { <<"s",".","p","n","g">>,
      <<"s",".","P","N","G">>,
      <<"s",".","j","p","g">>,
      <<"s",".","J","p","e","g">> }

\* s.nii, s.NII
NamesNii ==
    { <<"s",".","n","i","i">>,
      <<"s",".","N","I","I">> }

\* s.nii.gz, s.Nii.GZ
NamesNiiGz ==
    { <<"s",".","n","i","i",".","g","z">>,
      <<"s",".","N","i","i",".","G","Z">> }

\* d.txt, s.gz, png, s.png.txt: names that end with no accepted extension
NamesOther ==
    { <<"d",".","t","x","t">>,
      <<"s",".","g","z">>,
      <<"p","n","g">>,
      <<"s",".","p","n","g",".","t","x","t">> }

Filenames == Names2D \cup NamesNii \cup NamesNiiGz \cup NamesOther

\* what can go wrong in the environment while a request is handled
Faults == {"none", "write", "inference", "encode"}

(***************************************************************************)
(* The opaque inference function: its logit map at IMAGE_SIZE x IMAGE_SIZE *)
(* is one of a family of maps, given pointwise.                            *)
(***************************************************************************)
Num(v) == [nan |-> FALSE, v |-> v]
NaN == [nan |-> TRUE, v |-> 0]

LogitMaps == {"neg", "zero", "pos", "nan", "left", "top"}

\* output[0, 0, i, j] of model(input_tensor)
LogitAt(map, i, j) ==
    CASE map = "neg"     -> Num(-5)
      [] map = "zero"    -> Num(0)
      [] map = "pos"     -> Num(5)
      [] map = "nan"     -> NaN
      [] map = "left"    -> IF 2 * j < IMAGE_SIZE THEN Num(5) ELSE Num(-1)
      [] map = "top"     -> IF 2 * i < IMAGE_SIZE THEN Num(1) ELSE Num(0)

\* torch.sigmoid, in thousandths, on the logits the maps use
Sigmoid(l) ==
    IF l.nan THEN NaN
    ELSE CASE l.v = -5 -> Num(7)
           [] l.v = -1 -> Num(269)
           [] l.v = 0  -> Num(500)
           [] l.v = 1  -> Num(731)
           [] l.v = 5  -> Num(993)

\* (mask_probs > 0.5).float(): a comparison with NaN is false
Threshold(p) == IF ~p.nan /\ p.v > 500 THEN 1 ELSE 0

\* mask_preds.squeeze()[i, j]
MaskResizedAt(map, i, j) == Threshold(Sigmoid(LogitAt(map, i, j)))

(***************************************************************************)
(* Decoding.                                                               *)
(***************************************************************************)
\* the array a well-formed payload encodes
PayloadArray(data) ==
    [shape |-> data.shape,
     data  |-> [idx \in Indices(data.shape) |-> PatternValue(data.pat, idx)]]

\* Image.open(io.BytesIO(data)).convert("L"), then np.array(pil_image)
DecodeImage(data) ==
    IF data.kind = "image"
    THEN [ok |-> TRUE, err |-> "",
          arr |-> [shape |-> data.shape,
                   data  |-> [idx \in Indices(data.shape) |->
                                 PatternValue(data.pat, idx) % (PixelMax + 1)]]]
    ELSE [ok |-> FALSE, err |-> "cannot identify image file", arr |-> NoArray]

\* suffix = ".nii.gz" if original_filename.lower().endswith(".nii.gz") else ".nii"
TmpSuffix(original_filename) ==
    IF EndsWith(Lower(original_filename), ExtNiiGz) THEN ExtNiiGz ELSE ExtNii

\* nib.load(tmp_path) opens the file as its suffix says
NibLoads(data, suffix) ==
    \/ suffix = ExtNiiGz /\ data.kind = "niigz"
    \/ suffix = ExtNii /\ data.kind = "nii"

\* the temporary files still on disk when load_nifti_bytes is left: the finally
\* clause that removes the file guards nib.load and the squeeze, not tmp.write
TmpLeftBehind(written) == IF written THEN 0 ELSE 1

\* if data_arr.ndim == 4: data_arr = data_arr.squeeze()
SqueezeIf4D(arr) == IF NDim(arr) = 4 THEN Squeeze(arr) ELSE arr

load_nifti_bytes(data, original_filename, fault) ==
    LET suffix  == TmpSuffix(original_filename)
        written == fault # "write"
    IN  IF ~written
        THEN [ok |-> FALSE, err |-> "OSError: write failed", arr |-> NoArray,
              left |-> TmpLeftBehind(written)]
        ELSE IF ~NibLoads(data, suffix)
        THEN [ok |-> FALSE, err |-> "ImageFileError: cannot work out file type",
              arr |-> NoArray, left |-> TmpLeftBehind(written)]
        ELSE [ok |-> TRUE, err |-> "", arr |-> SqueezeIf4D(PayloadArray(data)),
              left |-> TmpLeftBehind(written)]

(***************************************************************************)
(* Normalisation.                                                          *)
(***************************************************************************)
\* np.clip(v, -1000, 400)
Clip(v) == IF v < ClipLo THEN ClipLo ELSE IF v > ClipHi THEN ClipHi ELSE v

\* faulty variant of Denominator: the 1e-8 is left out
DenominatorNoEps(lo, hi) == [span |-> hi - lo, eps |-> 0]

\* volume.max() - volume.min() + 1e-8, as the span and the count of 1e-8 added
Denominator(lo, hi) == [span |-> hi - lo, eps |-> 1]

normalize_volume(volume) ==
    LET clipped == [idx \in DOMAIN volume.data |-> Clip(volume.data[idx])]
        lo == SetMin({clipped[idx] : idx \in DOMAIN clipped})
        hi == SetMax({clipped[idx] : idx \in DOMAIN clipped})
    IN  [shape |-> volume.shape,
         data  |-> [idx \in DOMAIN clipped |->
                       Quot(clipped[idx] - lo, Denominator(lo, hi).span,
                            Denominator(lo, hi).eps)]]

\* image_array_uint8.astype(np.float32) / 255.0
Normalize2D(image) ==
    [shape |-> image.shape,
     data  |-> [idx \in DOMAIN image.data |-> Quot(image.data[idx], PixelMax, 0)]]

(***************************************************************************)
(* Slice selection.                                                        *)
(***************************************************************************)
\* z_dim // 2
MiddleIndex(z_dim) == z_dim \div 2

\* shape with its third axis removed
DropAxis2(shape) == SubSeq(shape, 1, 2) \o SubSeq(shape, 4, Len(shape))

\* vol_norm[:, :, k]
SliceAxis2(vol, k) ==
    LET shp == DropAxis2(vol.shape)
    IN  [shape |-> shp,
         data  |-> [idx \in Indices(shp) |->
                       vol.data[SubSeq(idx, 1, 2) \o <<k>> \o SubSeq(idx, 3, Len(idx))]]]

\* (mid_slice_norm * 255).astype(np.uint8)
SliceToUint8(slice) ==
    [shape |-> slice.shape,
     data  |-> [idx \in DOMAIN slice.data |-> ToUint8(slice.data[idx])]]

(***************************************************************************)
(* Inference adapter.                                                      *)
(***************************************************************************)
\* the source coordinate Image.NEAREST reads for output coordinate x
SrcIndex(x, inSize, outSize) == ((2 * x + 1) * inSize) \div (2 * outSize)

\* Image.fromarray(mask_np_resized).resize(size, Image.NEAREST), size = (width, height)
ResizeNearest(map, size) ==
    LET shp == <<size[2], size[1]>>
    IN  [shape |-> shp,
         data  |-> [idx \in Indices(shp) |->
                       MaskResizedAt(map,
                                     SrcIndex(idx[1], IMAGE_SIZE, shp[1]),
                                     SrcIndex(idx[2], IMAGE_SIZE, shp[2]))]]

\* faulty variant of MaskSize: the shape is passed on as (height, width)
MaskSizeUnswapped(original_shape) == <<original_shape[1], original_shape[2]>>

\* the size run_model resizes the mask to: (original_shape[1], original_shape[0])
MaskSize(original_shape) == <<original_shape[2], original_shape[1]>>

\* wrote: model.eval() was reached, which assigns the training flag of the shared model
run_model(m, slice_array, original_shape, map, fault) ==
    IF m = "None"
    THEN [ok |-> FALSE, err |-> "Model is not loaded.", mask |-> NoArray, wrote |-> FALSE]
    ELSE IF NDim(slice_array) # 2
    THEN [ok |-> FALSE, err |-> "TypeError: Cannot handle this data type",
          mask |-> NoArray, wrote |-> FALSE]
    ELSE IF fault = "inference"
    THEN [ok |-> FALSE, err |-> "RuntimeError: forward failed",
          mask |-> NoArray, wrote |-> TRUE]
    ELSE [ok |-> TRUE, err |-> "",
          mask |-> ResizeNearest(map, MaskSize(original_shape)), wrote |-> TRUE]

(***************************************************************************)
(* Overlay and response encoding.                                          *)
(***************************************************************************)
\* faulty variant of Highlight: the colour in BGR order
HighlightBGR == <<0, 0, 255>>

\* overlay_image[mask_indices] = [255, 0, 0]
Highlight == <<255, 0, 0>>

\* mask_indices = mask == 1
MaskIndex(v) == v = 1

\* np.stack([grey] * 3, axis=-1), then the highlight where the mask selects
Composite(grey, mask) ==
    LET shp == grey.shape \o <<3>>
    IN  [shape |-> shp,
         data  |-> [idx \in Indices(shp) |->
                       IF MaskIndex(mask.data[SubSeq(idx, 1, 2)])
                       THEN Highlight[idx[3] + 1]
                       ELSE grey.data[SubSeq(idx, 1, 2)]]]

\* array_to_base64(arr, is_mask=True): the pixels of the PNG are arr * 255
EncodeMask(arr) ==
    [shape |-> arr.shape, data |-> [idx \in DOMAIN arr.data |-> arr.data[idx] * PixelMax]]

\* array_to_base64(arr) and image_to_base64 of uint8 pixels: the PNG holds them as they are
EncodeImage(arr) == arr

(***************************************************************************)
(* The request handler.                                                    *)
(***************************************************************************)
Requests == {1}

NoBody == [k \in {} |-> NoArray]

Idle ==
    [pc |-> "idle", upload |-> <<>>, payload |-> [kind |-> "none"], filename |-> <<>>,
     path |-> "none", status |-> 0, detail |-> <<>>, body |-> NoBody, calls |-> {},
     norm |-> NoArray, sel |-> -1, mask |-> NoArray, grey |-> NoArray,
     overlay |-> NoArray, fault |-> "none", raised |-> ""]

\* faulty variant of ModelUnavailable: the handler does not look at the model
ModelUnavailableUnchecked(m) == FALSE

\* if model is None
ModelUnavailable(m) == m = "None"

Detail503 == <<"Model service is currently unavailable.">>
Detail400 == <<"Invalid file type. Only PNG, JPG, NII, or NII.GZ are supported.">>
Prefix2D == "Error processing 2D image: "
PrefixNifti == "Error processing NIfTI file: "

\* faulty variant of HandleError: the except clause passes and the handler returns normally
HandleErrorSwallowed(s, prefix) ==
    [s EXCEPT !.pc = "done", !.status = 200]

\* except Exception as e: raise HTTPException(status_code=500, detail=f"...{e}")
HandleError(s, prefix) ==
    [s EXCEPT !.pc = "done", !.status = 500, !.detail = <<prefix, s.raised>>]

\* a stage raises e: the try block is left with the locals assigned so far
Raise(s, e) == [s EXCEPT !.raised = e]

\* overlay_image[mask_indices] = ... with a mask of another shape than the image
BoolIndexError == "IndexError: boolean index did not match indexed array"

\* the try block of the 2-D branch
Body2D(s, m, map) ==
    LET dec == DecodeImage(s.payload)
        s1  == [s EXCEPT !.calls = @ \cup {"Image.open"}]
        s2  == [s1 EXCEPT !.grey = dec.arr, !.norm = Normalize2D(dec.arr),
                          !.calls = @ \cup {"run_model"}]
        rm  == run_model(m, s2.norm, dec.arr.shape, map, s.fault)
        s3  == [s2 EXCEPT !.mask = rm.mask, !.overlay = Composite(s2.grey, rm.mask)]
    IN  IF ~dec.ok THEN [req |-> HandleError(Raise(s1, dec.err), Prefix2D), wrote |-> FALSE]
        ELSE IF ~rm.ok THEN [req |-> HandleError(Raise(s2, rm.err), Prefix2D), wrote |-> rm.wrote]
        ELSE IF rm.mask.shape # s2.grey.shape
        THEN [req |-> HandleError(Raise([s2 EXCEPT !.mask = rm.mask], BoolIndexError), Prefix2D),
              wrote |-> rm.wrote]
        ELSE IF s.fault = "encode"
        THEN [req |-> HandleError(Raise(s3, "OSError: encoder error"), Prefix2D), wrote |-> rm.wrote]
        ELSE [req |-> [s3 EXCEPT !.pc = "done", !.status = 200,
                                 !.body = [original_image |-> EncodeImage(s3.grey),
                                           mask           |-> EncodeMask(s3.mask),
                                           overlay        |-> EncodeImage(s3.overlay)]],
              wrote |-> rm.wrote]

\* the try block of the volumetric branch
BodyNifti(s, m, map) ==
    LET ld  == load_nifti_bytes(s.payload, s.filename, s.fault)
        s1  == [s EXCEPT !.calls = @ \cup {"load_nifti_bytes"}]
        s2  == [s1 EXCEPT !.norm = normalize_volume(ld.arr),
                          !.calls = @ \cup {"normalize_volume"}]
        mid == MiddleIndex(s2.norm.shape[3])
        sl  == SliceAxis2(s2.norm, mid)
        s3  == [s2 EXCEPT !.sel = mid, !.calls = @ \cup {"run_model"}]
        rm  == run_model(m, sl, sl.shape, map, s.fault)
        s4  == [s3 EXCEPT !.mask = rm.mask, !.grey = SliceToUint8(sl),
                          !.overlay = Composite(SliceToUint8(sl), rm.mask)]
    IN  IF ~ld.ok
        THEN [req |-> HandleError(Raise(s1, ld.err), PrefixNifti), wrote |-> FALSE, left |-> ld.left]
        ELSE IF NDim(s2.norm) < 3
        THEN [req |-> HandleError(Raise(s2, "IndexError: tuple index out of range"), PrefixNifti),
              wrote |-> FALSE, left |-> ld.left]
        ELSE IF ~rm.ok
        THEN [req |-> HandleError(Raise(s3, rm.err), PrefixNifti), wrote |-> rm.wrote, left |-> ld.left]
        ELSE IF rm.mask.shape # sl.shape
        THEN [req |-> HandleError(Raise([s3 EXCEPT !.mask = rm.mask], BoolIndexError), PrefixNifti),
              wrote |-> rm.wrote, left |-> ld.left]
        ELSE IF s.fault = "encode"
        THEN [req |-> HandleError(Raise(s4, "OSError: encoder error"), PrefixNifti),
              wrote |-> rm.wrote, left |-> ld.left]
        ELSE [req |-> [s4 EXCEPT !.pc = "done", !.status = 200,
                                 !.body = [image   |-> EncodeImage(s4.grey),
                                           mask    |-> EncodeMask(s4.mask),
                                           overlay |-> EncodeImage(s4.overlay)]],
              wrote |-> rm.wrote, left |-> ld.left]

(***************************************************************************)
(* Actions.  A slot holds one request; once its response is sent the slot  *)
(* is free for the next one.                                               *)
(***************************************************************************)
Free(r) == req[r].pc = "idle"

\* write faults are injected while fewer than MaxTmpFiles files are left behind
FaultsNow == IF tmpFiles < MaxTmpFiles THEN Faults ELSE Faults \ {"write"}

\* lines 193-194: the model did not load, the request is answered 503
Unavailable(r, names, payloads) ==
    /\ Free(r)
    /\ ModelUnavailable(model)
    /\ \E name \in names, data \in payloads :
          req' = [req EXCEPT ![r] = [Idle EXCEPT !.pc = "done", !.upload = name,
                                                 !.payload = data, !.path = "unavailable",
                                                 !.status = 503, !.detail = Detail503]]
    /\ UNCHANGED <<model, training, modelWrites, tmpFiles>>

\* lines 193-197: the filename is lower-cased and the upload's bytes are awaited
Accept(r, names, payloads) ==
    /\ Free(r)
    /\ ~ModelUnavailable(model)
    /\ \E name \in names, data \in payloads :
          req' = [req EXCEPT ![r] = [Idle EXCEPT !.pc = "reading", !.upload = name,
                                                 !.payload = data,
                                                 !.filename = Lower(name)]]
    /\ UNCHANGED <<model, training, modelWrites, tmpFiles>>

\* model.eval() in run_model: self.training = False on the shared model
EvalWrites(r, wrote) ==
    /\ training' = IF wrote THEN FALSE ELSE training
    /\ modelWrites' = IF wrote THEN modelWrites \cup {r} ELSE modelWrites

\* lines 199-224: the 2-D branch
Predict2D(r) ==
    /\ req[r].pc = "reading"
    /\ Is2DName(req[r].filename)
    /\ \E fault \in Faults \ {"write"}, map \in LogitMaps :
          LET out == Body2D([req[r] EXCEPT !.path = "2d", !.fault = fault], model, map)
          IN  /\ req' = [req EXCEPT ![r] = out.req]
              /\ EvalWrites(r, out.wrote)
    /\ UNCHANGED <<model, tmpFiles>>

\* lines 226-256: the volumetric branch
PredictNifti(r) ==
    /\ req[r].pc = "reading"
    /\ ~Is2DName(req[r].filename)
    /\ IsNiftiName(req[r].filename)
    /\ \E fault \in FaultsNow, map \in LogitMaps :
          LET out == BodyNifti([req[r] EXCEPT !.path = "nifti", !.fault = fault], model, map)
          IN  /\ req' = [req EXCEPT ![r] = out.req]
              /\ EvalWrites(r, out.wrote)
              /\ tmpFiles' = tmpFiles + out.left
    /\ UNCHANGED model

\* lines 260-261: any other extension is answered 400
Reject(r) ==
    /\ req[r].pc = "reading"
    /\ ~Is2DName(req[r].filename)
    /\ ~IsNiftiName(req[r].filename)
    /\ req' = [req EXCEPT ![r] = [@ EXCEPT !.pc = "done", !.path = "reject",
                                          !.status = 400, !.detail = Detail400]]
    /\ UNCHANGED <<model, training, modelWrites, tmpFiles>>

\* the response (JSONResponse or HTTPException) is sent; the request's locals are gone
Respond(r) ==
    /\ req[r].pc = "done"
    /\ req' = [req EXCEPT ![r] = Idle]
    /\ UNCHANGED <<model, training, modelWrites, tmpFiles>>

\* lines 117-128: the module-level load either leaves the model in eval mode or None
Init ==
    /\ model \in {"UNet", "None"}
    /\ training = FALSE
    /\ modelWrites = {}
    /\ tmpFiles = 0
    /\ req = [r \in Requests |-> Idle]

Next ==
    \E r \in Requests :
        \/ Unavailable(r, Filenames, Payloads)
        \/ Accept(r, Filenames, Payloads)
        \/ Predict2D(r)
        \/ PredictNifti(r)
        \/ Reject(r)
        \/ Respond(r)

Spec == Init /\ [][Next]_vars

(***************************************************************************)
(* Concurrent requests: the same handler on several slots, whose steps     *)
(* interleave at the await of the upload's bytes.                          *)
(***************************************************************************)
ConcRequests == {1, 2}

ConcFilenames ==
    { <<"s",".","p","n","g">>, <<"s",".","n","i","i">>, <<"d",".","t","x","t">> }

ConcPayloads ==
    {p \in Payloads : p.shape \in {<<1, 2>>, <<1, 2, 1>>} /\ p.kind # "niigz"}

InitConc ==
    /\ model \in {"UNet", "None"}
    /\ training = FALSE
    /\ modelWrites = {}
    /\ tmpFiles = 0
    /\ req = [r \in ConcRequests |-> Idle]

NextConc ==
    \E r \in ConcRequests :
        \/ Unavailable(r, ConcFilenames, ConcPayloads)
        \/ Accept(r, ConcFilenames, ConcPayloads)
        \/ Predict2D(r)
        \/ PredictNifti(r)
        \/ Reject(r)
        \/ Respond(r)

SpecConc == InitConc /\ [][NextConc]_vars

(***************************************************************************)
(* Properties.                                                             *)
(***************************************************************************)
Slots == DOMAIN req

Done(r) == req[r].pc = "done"

Processing == {"Image.open", "load_nifti_bytes", "normalize_volume", "run_model"}

\* C1 as stated: every upload whose name ends with no accepted extension is
\* answered 400 with the 'Invalid file type' detail, and no processing function
\* is called for it.
C1_Original ==
    \A r \in Slots :
        (Done(r) /\ req[r].upload \in NamesOther) =>
            /\ req[r].status = 400
            /\ req[r].detail = Detail400
            /\ req[r].calls \cap Processing = {}

\* C1 amended: with the model loaded such an upload is answered 400 with the
\* 'Invalid file type' detail; with the model not loaded it is answered 503; in
\* both cases no processing function is called for it.
C1_InvalidExtension ==
    \A r \in Slots :
        (Done(r) /\ req[r].upload \in NamesOther) =>
            /\ req[r].calls \cap Processing = {}
            /\ IF model = "None"
               THEN req[r].status = 503 /\ req[r].detail = Detail503
               ELSE req[r].status = 400 /\ req[r].detail = Detail400

C1_Witness ==
    \E r \in Slots :
        /\ Done(r)
        /\ req[r].upload = <<"s",".","p","n","g",".","t","x","t">>
        /\ req[r].payload.kind = "image"
        /\ req[r].status = 400

\* C2: when the model failed to load, every request, whatever its filename or
\* payload, is answered 503 'Model service is currently unavailable.', never with
\* a success body and never with run_model's 'Model is not loaded.' as a 500.
C2_Unavailable503 ==
    model = "None" =>
        \A r \in Slots :
            /\ req[r].pc # "reading"
            /\ Done(r) =>
                  /\ req[r].status = 503
                  /\ req[r].detail = Detail503
                  /\ req[r].body = NoBody
                  /\ req[r].calls = {}
                  /\ req[r].raised = ""

C2_Witness ==
    \E r \in Slots :
        /\ model = "None"
        /\ Done(r)
        /\ req[r].upload \in NamesNii
        /\ req[r].payload.kind = "nii"
        /\ req[r].status = 503

\* C8: with the model loaded, a name ending case-insensitively in .png, .jpg or
\* .jpeg takes the 2-D path and a success has exactly the keys original_image,
\* mask, overlay; a name ending in .nii or .nii.gz takes the volumetric path and a
\* success has exactly the keys image, mask, overlay; no other name takes a path.
C8_Dispatch ==
    model # "None" =>
        \A r \in Slots :
            Done(r) =>
                /\ req[r].upload \in Names2D <=> req[r].path = "2d"
                /\ req[r].upload \in (NamesNii \cup NamesNiiGz) <=> req[r].path = "nifti"
                /\ (req[r].path = "2d" /\ req[r].status = 200) =>
                      DOMAIN req[r].body = {"original_image", "mask", "overlay"}
                /\ (req[r].path = "nifti" /\ req[r].status = 200) =>
                      DOMAIN req[r].body = {"image", "mask", "overlay"}
                /\ req[r].status = 200 => req[r].path \in {"2d", "nifti"}

C8_Witness ==
    \E r \in Slots :
        /\ Done(r)
        /\ req[r].upload = <<"s",".","N","i","i",".","G","Z">>
        /\ req[r].path = "nifti"
        /\ req[r].status = 200
        /\ DOMAIN req[r].body = {"image", "mask", "overlay"}

PathPrefix(path) == IF path = "2d" THEN Prefix2D ELSE PrefixNifti

\* C9: for an accepted extension and a loaded model, whatever a stage raises
\* reaches the handler's except clause: the request ends 500 with the underlying
\* message in the detail; every request ends with one of 200, 400, 500, 503, and
\* a 200 body is returned only when no stage failed.
C9_FailuresReachHandler ==
    \A r \in Slots :
        Done(r) =>
            /\ req[r].status \in {200, 400, 500, 503}
            /\ req[r].body # NoBody <=> req[r].status = 200
            /\ req[r].path \in {"2d", "nifti"} =>
                  /\ req[r].status \in {200, 500}
                  /\ req[r].raised # "" <=> req[r].status = 500
                  /\ req[r].status = 500 =>
                        req[r].detail = <<PathPrefix(req[r].path), req[r].raised>>
                  /\ req[r].fault # "none" => req[r].status = 500
                  /\ (req[r].path = "2d" /\ req[r].payload.kind # "image") =>
                        req[r].status = 500
                  /\ (req[r].path = "nifti" /\ req[r].payload.kind \notin {"nii", "niigz"}) =>
                        req[r].status = 500

C9_Witness ==
    \E r \in Slots :
        /\ Done(r)
        /\ req[r].path = "nifti"
        /\ req[r].fault = "inference"
        /\ "run_model" \in req[r].calls
        /\ req[r].status = 500
        /\ req[r].detail = <<PrefixNifti, "RuntimeError: forward failed">>

\* C3 as stated: the temporary file load_nifti_bytes creates is deleted on every
\* exit path (write failure, decode failure, success), so no temporary file is
\* ever left behind.
C3_TmpFileDeleted == tmpFiles = 0

KindMatchesName(r) ==
    \/ req[r].upload \in NamesNii /\ req[r].payload.kind = "nii"
    \/ req[r].upload \in NamesNiiGz /\ req[r].payload.kind = "niigz"

\* a volume of three axes, or of four with a degenerate fourth axis
DepthVolume(shape) == Len(shape) = 3 \/ (Len(shape) = 4 /\ shape[4] = 1)

\* the display value of voxel (y, x, k) of the uploaded volume
ExpectedGrey(data, y, x, k) ==
    LET vol == normalize_volume(PayloadArray(data))
        idx == IF Len(data.shape) = 3 THEN <<y, x, k>> ELSE <<y, x, k, 0>>
    IN  ToUint8(vol.data[idx])

\* C4 as stated: for every volumetric input of depth D >= 1, a degenerate fourth
\* axis included, the volumetric path selects slice D // 2 along axis 2 and the
\* returned image, mask and overlay have that slice's height and width.
C4_MiddleSlice ==
    \A r \in Slots :
        (/\ Done(r)
         /\ req[r].path = "nifti"
         /\ KindMatchesName(r)
         /\ req[r].fault = "none"
         /\ DepthVolume(req[r].payload.shape)) =>
            LET shape == req[r].payload.shape
                hw    == <<shape[1], shape[2]>>
            IN  /\ req[r].status = 200
                /\ req[r].sel = shape[3] \div 2
                /\ req[r].body.image.shape = hw
                /\ req[r].body.mask.shape = hw
                /\ req[r].body.overlay.shape = hw \o <<3>>
                /\ \A idx \in Indices(hw) :
                      req[r].body.image.data[idx] =
                          ExpectedGrey(req[r].payload, idx[1], idx[2], shape[3] \div 2)

\* C5: on the 2-D path the mask run_model returns, and the overlay built from it,
\* have the input's height and width, never the model's resolution, and every
\* mask value is 0 or 1 whatever the logits; a valid image with no fault succeeds.
C5_MaskShapeAndValues ==
    \A r \in Slots :
        req[r].path = "2d" =>
            /\ req[r].mask # NoArray =>
                  /\ req[r].mask.shape = req[r].payload.shape
                  /\ DOMAIN req[r].mask.data = Indices(req[r].payload.shape)
                  /\ Values(req[r].mask) \subseteq {0, 1}
            /\ req[r].overlay # NoArray =>
                  req[r].overlay.shape = req[r].payload.shape \o <<3>>
            /\ (Done(r) /\ req[r].payload.kind = "image" /\ req[r].fault = "none") =>
                  /\ req[r].status = 200
                  /\ req[r].body.mask.shape = req[r].payload.shape
                  /\ Values(req[r].body.mask) \subseteq {0, PixelMax}
                  /\ req[r].body.overlay.shape = req[r].payload.shape \o <<3>>

C5_Witness ==
    \E r \in Slots :
        /\ Done(r)
        /\ req[r].path = "2d"
        /\ req[r].status = 200
        /\ req[r].payload.shape = <<1, 2>>
        /\ req[r].mask.shape = <<1, 2>>
        /\ Values(req[r].mask) = {0, 1}

OverlayPixel(r, y, x) ==
    <<req[r].overlay.data[<<y, x, 0>>],
      req[r].overlay.data[<<y, x, 1>>],
      req[r].overlay.data[<<y, x, 2>>]>>

\* C6: on both paths the overlay pixel at (y, x) is (255, 0, 0) iff the mask is 1
\* there, and is otherwise the display slice's grey value on the three channels.
C6_Overlay ==
    \A r \in Slots :
        req[r].overlay # NoArray =>
            /\ req[r].overlay.shape = req[r].grey.shape \o <<3>>
            /\ \A idx \in Indices(req[r].grey.shape) :
                  LET px == OverlayPixel(r, idx[1], idx[2])
                      g  == req[r].grey.data[idx]
                  IN  /\ px = <<255, 0, 0>> <=> req[r].mask.data[idx] = 1
                      /\ req[r].mask.data[idx] # 1 => px = <<g, g, g>>

C6_Witness ==
    \E r \in Slots :
        /\ Done(r)
        /\ req[r].path = "nifti"
        /\ req[r].status = 200
        /\ Values(req[r].mask) = {0, 1}
        /\ PixelMax \in Values(req[r].grey)

FlatInput(data) == \A i \in DOMAIN data.pat.step : data.pat.step[i] = 0

AllZero(arr) == \A v \in Values(arr) : IsZero(v)

NoNaNOrInf(arr) == \A v \in Values(arr) : ~IsNaNOrInf(v)

\* C7 as stated: normalising a constant-valued input yields an all-zero output
\* and never NaN or Inf, on the volumetric path and on the 2-D path.
C7_Original ==
    \A r \in Slots :
        (req[r].norm # NoArray /\ FlatInput(req[r].payload)) =>
            AllZero(req[r].norm) /\ NoNaNOrInf(req[r].norm)

\* C7 amended: normalize_volume on a constant-valued volume yields an all-zero
\* output; the 2-D path's pixel / 255.0 on an image whose pixels all are c yields
\* c / 255 everywhere, which is all zero only for c = 0; neither yields NaN or Inf.
C7_FlatNormalised ==
    \A r \in Slots :
        (req[r].norm # NoArray /\ FlatInput(req[r].payload)) =>
            /\ NoNaNOrInf(req[r].norm)
            /\ req[r].path = "nifti" => AllZero(req[r].norm)
            /\ req[r].path = "2d" =>
                  /\ Values(req[r].norm) = {Quot(req[r].payload.pat.base, PixelMax, 0)}
                  /\ AllZero(req[r].norm) <=> req[r].payload.pat.base = 0

C7_Witness ==
    \E r \in Slots :
        /\ req[r].path = "nifti"
        /\ req[r].norm # NoArray
        /\ FlatInput(req[r].payload)
        /\ req[r].payload.pat.base > ClipHi
        /\ AllZero(req[r].norm)

\* C10 as stated: under any interleaving of requests, request handling never
\* writes the shared model reference or the model's state, run_model's call of
\* model.eval() included.
C10_ModelNeverWritten ==
    /\ modelWrites = {}
    /\ training = FALSE

====
